---- MODULE Spec2Model ----
(***************************************************************************)
(* Model of the ssh-tunnel supervisor (src/main.go).                       *)
(*                                                                         *)
(* Every supervisor instance is one OS process running main(): it takes    *)
(* the PID-file lock (createPIDFile), installs the signal handler, runs    *)
(* the ticker loop (run), restarts the ssh child when a health check       *)
(* fails (restartTunnel = stopSSH; startSSH) and cleans up on shutdown.    *)
(* The instances share the PID file; each owns its ssh children.           *)
(*                                                                         *)
(* Four specifications are built from the same actions:                    *)
(*   Spec      one supervisor runs main(), with signals, crashes and ssh   *)
(*             children that exit or ignore SIGTERM;                       *)
(*   SpecLive  the same under the scheduling fairness of the Go runtime    *)
(*             (liveness), without crashes;                                *)
(*   SpecRace  several supervisors started together for one endpoint, up   *)
(*             to the first tick: createPIDFile step by step;              *)
(*   SpecApi   the methods of Application called one after another in any  *)
(*             order on one instance (method contracts).                   *)
(***************************************************************************)
EXTENDS Integers, Sequences, FiniteSets, TLC

VARIABLES
    pidFile,      \* content of conf.PIDFile: NoFile or a sequence of characters
    pc,           \* pc[i]: position of instance i's main goroutine
    ret,          \* ret[i]: stack of return positions of the calls in progress
    pidContent,   \* createPIDFile: local `content`
    pidErr,       \* createPIDFile: the returned error
    sshProcess,   \* app.sshProcess: Nil or the handle of a spawned child
    sshMutex,     \* app.sshMutex: "free" or the method holding it
    child,        \* child[i][n]: OS state of the n-th ssh process spawned by i
    spawned,      \* number of ssh processes instance i has spawned
    attempt,      \* waitForTunnelReady: loop counter i
    portOK,       \* result of the last checkPort call
    ctPort,       \* checkTraffic: result of its port stage
    ctResp,       \* checkTraffic: outcome of client.Do
    healthy,      \* result of the last checkTraffic call
    startErr,     \* startSSH: the returned error
    sigCh,        \* number of signals buffered in sigCh (capacity 1)
    handler,      \* signal goroutine: "none", "waiting", "done"
    shutdownChan, \* app.shutdownChan: "open" or "closed"
    calls,        \* log since the last tick or API call: the tick, the check's
                  \* verdict, entries of stopSSH/startSSH, "already running"
    probes,       \* log: HEAD requests issued by the current checkTraffic
    sigs,         \* log: signals sent to the stopped child by the current stopSSH
    entered,      \* log: instance i has entered run()
    exitCode      \* exit status of instance i once it has exited

vars == <<pidFile, pc, ret, pidContent, pidErr, sshProcess, sshMutex, child,
          spawned, attempt, portOK, ctPort, ctResp, healthy, startErr, sigCh,
          handler, shutdownChan, calls, probes, sigs, entered, exitCode>>

-----------------------------------------------------------------------------
(* Bounds and universe *)

\* ssh processes one instance may spawn before cmd.Start() only fails
MaxSpawns == 2

\* waitForTunnelReady: number of checkPort attempts
ReadyAttempts == 5

\* http.StatusOK
StatusOK == 200

Inst == {1, 2}

\* os.Getpid() of instance i
PidOf(i) == 100 + i

Nil == 0
\* the file does not exist (no character sequence equals it)
NoFile == <<"ENOENT">>
NoErr == [kind |-> "nil", pid |-> 0]

-----------------------------------------------------------------------------
(* strconv.Itoa, strconv.Atoi, bytes.TrimSpace on character sequences *)

Digits == <<"0", "1", "2", "3", "4", "5", "6", "7", "8", "9">>

IsDigit(c) == \E d \in 1..10 : Digits[d] = c

DigitVal(c) == (CHOOSE d \in 1..10 : Digits[d] = c) - 1

IsSpace(c) == c \in {" ", "\n", "\t", "\r"}

RECURSIVE ItoaNat(_)
ItoaNat(n) == IF n < 10 THEN <<Digits[n + 1]>>
              ELSE Append(ItoaNat(n \div 10), Digits[(n % 10) + 1])

Itoa(n) == IF n < 0 THEN <<"-">> \o ItoaNat(0 - n) ELSE ItoaNat(n)

RECURSIVE TrimLeft(_)
TrimLeft(s) == IF s # <<>> /\ IsSpace(Head(s)) THEN TrimLeft(Tail(s)) ELSE s

RECURSIVE TrimRight(_)
TrimRight(s) == IF s # <<>> /\ IsSpace(s[Len(s)])
                THEN TrimRight(SubSeq(s, 1, Len(s) - 1)) ELSE s

TrimSpace(s) == TrimRight(TrimLeft(s))

RECURSIVE DigitsVal(_)
DigitsVal(s) == IF s = <<>> THEN 0
                ELSE 10 * DigitsVal(SubSeq(s, 1, Len(s) - 1)) + DigitVal(s[Len(s)])

\* strconv.Atoi: optional sign, then one or more decimal digits
Atoi(s) ==
    LET signed == s # <<>> /\ Head(s) \in {"+", "-"}
        body   == IF signed THEN Tail(s) ELSE s
    IN IF body = <<>> \/ \E k \in 1..Len(body) : ~IsDigit(body[k])
       THEN [ok |-> FALSE, val |-> 0]
       ELSE [ok |-> TRUE,
             val |-> IF signed /\ Head(s) = "-" THEN 0 - DigitsVal(body)
                     ELSE DigitsVal(body)]

-----------------------------------------------------------------------------
(* Operating-system view *)

\* instance i is a live OS process
Running(i) == pc[i] \notin {"off", "exited", "crashed"}

\* process.Signal(syscall.Signal(0)) returns nil: a live process has this pid.
\* Pid 1 (init) is always alive.
ProcessAlive(pid) == pid = 1 \/ \E j \in Inst : PidOf(j) = pid /\ Running(j)

\* what the PID file may hold when the instances start: nothing, an empty or
\* garbled file, the pid of a dead process, the pid of a live foreign
\* process (with the newline an editor or `echo` leaves)
InitialLockContents ==
    {NoFile, <<>>, <<"p", "i", "d">>, Itoa(77), Itoa(1) \o <<"\n">>}

Push(i, label) == <<label>> \o ret[i]

-----------------------------------------------------------------------------
(* Control helpers *)

lockVars   == <<pidFile, pidContent, pidErr>>
procVars   == <<sshProcess, sshMutex, child, spawned, attempt, startErr, sigs>>
healthVars == <<portOK, ctPort, ctResp, healthy, probes>>
sigVars    == <<sigCh, handler, shutdownChan>>

Goto(i, label) == pc' = [pc EXCEPT ![i] = label] /\ UNCHANGED ret

Call(i, entry, back) ==
    /\ pc' = [pc EXCEPT ![i] = entry]
    /\ ret' = [ret EXCEPT ![i] = Push(i, back)]

Return(i) ==
    /\ pc' = [pc EXCEPT ![i] = Head(ret[i])]
    /\ ret' = [ret EXCEPT ![i] = Tail(ret[i])]

\* os.Exit(code), or main returning
Exit(i, code) ==
    /\ pc' = [pc EXCEPT ![i] = "exited"]
    /\ ret' = [ret EXCEPT ![i] = <<>>]
    /\ exitCode' = [exitCode EXCEPT ![i] = code]

Err(kind, pid) == [kind |-> kind, pid |-> pid]

-----------------------------------------------------------------------------
(* main and initialize *)

\* main: newConfigFromEnv, then initialize up to createLogger
Startup(i) ==
    /\ pc[i] = "main"
    /\ \E ok \in BOOLEAN :
          IF ok THEN /\ Call(i, "pid_stat", "init_afterPID")
                     /\ UNCHANGED exitCode
                ELSE Exit(i, 1)
    /\ UNCHANGED <<lockVars, procVars, healthVars, sigVars, calls, entered>>

\* initialize after createPIDFile returned, then main up to the select of run
InitAfterPID(i) ==
    /\ pc[i] = "init_afterPID"
    /\ IF pidErr[i].kind # "nil"
       THEN /\ Exit(i, 1)
            /\ UNCHANGED <<handler, entered>>
       ELSE /\ handler' = [handler EXCEPT ![i] = "waiting"]
            /\ entered' = [entered EXCEPT ![i] = TRUE]
            /\ Goto(i, "run_select")
            /\ UNCHANGED exitCode
    /\ UNCHANGED <<lockVars, procVars, healthVars, sigCh, shutdownChan, calls>>

-----------------------------------------------------------------------------
(* createPIDFile, one action per file-system or process-table access *)

\* os.Stat(PIDFile)
PidStat(i) ==
    /\ pc[i] = "pid_stat"
    /\ Goto(i, IF pidFile # NoFile THEN "pid_read" ELSE "pid_write")
    /\ UNCHANGED <<lockVars, procVars, healthVars, sigVars, calls, entered, exitCode>>

\* os.ReadFile(PIDFile)
PidRead(i) ==
    /\ pc[i] = "pid_read"
    /\ IF pidFile = NoFile
       THEN /\ pidErr' = [pidErr EXCEPT ![i] = Err("read", 0)]
            /\ Return(i)
            /\ UNCHANGED pidContent
       ELSE /\ pidContent' = [pidContent EXCEPT ![i] = pidFile]
            /\ Goto(i, "pid_probe")
            /\ UNCHANGED pidErr
    /\ UNCHANGED <<pidFile, procVars, healthVars, sigVars, calls, entered, exitCode>>

\* PidProbe with the `return` on a live owner forgotten
PidProbe_NoReject(i) ==
    /\ pc[i] = "pid_probe"
    /\ LET r == Atoi(TrimSpace(pidContent[i]))
       IN IF ~r.ok
          THEN /\ pidErr' = [pidErr EXCEPT ![i] = Err("parse", 0)]
               /\ Return(i)
          ELSE /\ Goto(i, "pid_remove")
               /\ UNCHANGED pidErr
    /\ UNCHANGED <<pidFile, pidContent, procVars, healthVars, sigVars, calls,
                   entered, exitCode>>

\* strconv.Atoi(TrimSpace(content)), os.FindProcess(pid), process.Signal(0)
PidProbe(i) ==
    /\ pc[i] = "pid_probe"
    /\ LET r == Atoi(TrimSpace(pidContent[i]))
       IN IF ~r.ok
          THEN /\ pidErr' = [pidErr EXCEPT ![i] = Err("parse", 0)]
               /\ Return(i)
          ELSE IF ProcessAlive(r.val)
          THEN /\ pidErr' = [pidErr EXCEPT ![i] = Err("alreadyRunning", r.val)]
               /\ Return(i)
          ELSE /\ Goto(i, "pid_remove")
               /\ UNCHANGED pidErr
    /\ UNCHANGED <<pidFile, pidContent, procVars, healthVars, sigVars, calls,
                   entered, exitCode>>

\* os.Remove(PIDFile), its error ignored
PidRemove(i) ==
    /\ pc[i] = "pid_remove"
    /\ pidFile' = NoFile
    /\ Goto(i, "pid_write")
    /\ UNCHANGED <<pidContent, pidErr, procVars, healthVars, sigVars, calls,
                   entered, exitCode>>

\* PidWrite writing the identifier with a trailing newline
PidWrite_Newline(i) ==
    /\ pc[i] = "pid_write"
    /\ pidFile' = Itoa(PidOf(i)) \o <<"\n">>
    /\ pidErr' = [pidErr EXCEPT ![i] = NoErr]
    /\ Return(i)
    /\ UNCHANGED <<pidContent, procVars, healthVars, sigVars, calls, entered,
                   exitCode>>

\* os.WriteFile(PIDFile, strconv.Itoa(os.Getpid()))
PidWrite(i) ==
    /\ pc[i] = "pid_write"
    /\ pidFile' = Itoa(PidOf(i))
    /\ pidErr' = [pidErr EXCEPT ![i] = NoErr]
    /\ Return(i)
    /\ UNCHANGED <<pidContent, procVars, healthVars, sigVars, calls, entered,
                   exitCode>>

-----------------------------------------------------------------------------
(* checkPort and checkTraffic *)

\* what client.Do can return: a transport error, or a response with a status
ProbeOutcomes ==
    {[err |-> TRUE, status |-> 0]}
      \cup {[err |-> FALSE, status |-> s] : s \in {StatusOK, 204, 404, 503}}

NoResp == [err |-> FALSE, status |-> 0]

\* checkPort: net.DialTimeout to ProxyHost succeeds or fails
CheckPort(i) ==
    /\ pc[i] = "checkPort"
    /\ \E ok \in BOOLEAN : portOK' = [portOK EXCEPT ![i] = ok]
    /\ Return(i)
    /\ UNCHANGED <<lockVars, procVars, ctPort, ctResp, healthy, probes, sigVars,
                   calls, entered, exitCode>>

\* checkTraffic: entry, calling checkPort
CheckTrafficEnter(i) ==
    /\ pc[i] = "ct_enter"
    /\ ctPort' = [ctPort EXCEPT ![i] = FALSE]
    /\ ctResp' = [ctResp EXCEPT ![i] = NoResp]
    /\ probes' = [probes EXCEPT ![i] = <<>>]
    /\ Call(i, "checkPort", "ct_afterPort")
    /\ UNCHANGED <<lockVars, procVars, portOK, healthy, sigVars, calls, entered,
                   exitCode>>

\* CtAfterPort going on to the HEAD request whatever checkPort returned
CtAfterPort_NoShortCircuit(i) ==
    /\ pc[i] = "ct_afterPort"
    /\ ctPort' = [ctPort EXCEPT ![i] = portOK[i]]
    /\ Goto(i, "ct_head")
    /\ UNCHANGED <<lockVars, procVars, portOK, ctResp, healthy, probes, sigVars,
                   calls, entered, exitCode>>

\* checkTraffic: `if !app.checkPort() { return false }`, else build the request
CtAfterPort(i) ==
    /\ pc[i] = "ct_afterPort"
    /\ ctPort' = [ctPort EXCEPT ![i] = portOK[i]]
    /\ IF ~portOK[i]
       THEN /\ healthy' = [healthy EXCEPT ![i] = FALSE]
            /\ Return(i)
       ELSE /\ Goto(i, "ct_head")
            /\ UNCHANGED healthy
    /\ UNCHANGED <<lockVars, procVars, portOK, ctResp, probes, sigVars, calls,
                   entered, exitCode>>

\* CtHead taking every 2xx status for success
CtHead_Any2xx(i) ==
    /\ pc[i] = "ct_head"
    /\ \E r \in ProbeOutcomes :
          /\ ctResp' = [ctResp EXCEPT ![i] = r]
          /\ healthy' = [healthy EXCEPT ![i] =
                            (~r.err /\ r.status >= 200 /\ r.status < 300)]
    /\ probes' = [probes EXCEPT ![i] = Append(probes[i], "HEAD")]
    /\ Return(i)
    /\ UNCHANGED <<lockVars, procVars, portOK, ctPort, sigVars, calls, entered,
                   exitCode>>

\* checkTraffic: client.Do(HEAD https://google.com) and the status test
CtHead(i) ==
    /\ pc[i] = "ct_head"
    /\ \E r \in ProbeOutcomes :
          /\ ctResp' = [ctResp EXCEPT ![i] = r]
          /\ healthy' = [healthy EXCEPT ![i] = (~r.err /\ r.status = StatusOK)]
    /\ probes' = [probes EXCEPT ![i] = Append(probes[i], "HEAD")]
    /\ Return(i)
    /\ UNCHANGED <<lockVars, procVars, portOK, ctPort, sigVars, calls, entered,
                   exitCode>>

-----------------------------------------------------------------------------
(* stopSSH *)

\* exec.Cmd.ProcessState of handle h: only cmd.Wait sets it, and main.go
\* reaps with cmd.Process.Wait, so it stays nil
CmdProcessState(i, h) == "nil"

\* isProcessRunning: cmd != nil && cmd.Process != nil && cmd.ProcessState == nil
IsProcessRunning(i, h) ==
    /\ h # Nil
    /\ child[i][h] # "none"
    /\ CmdProcessState(i, h) = "nil"

Unlock(i) == sshMutex' = [sshMutex EXCEPT ![i] = "free"]

\* StopLock without `app.sshMutex.Lock()`
StopLock_NoLock(i) ==
    /\ pc[i] = "stop_lock"
    /\ calls' = [calls EXCEPT ![i] = Append(calls[i], "stopSSH")]
    /\ sigs' = [sigs EXCEPT ![i] = <<>>]
    /\ Goto(i, "stop_check")
    /\ UNCHANGED <<lockVars, sshProcess, sshMutex, child, spawned, attempt,
                   startErr, healthVars, sigVars, entered, exitCode>>

\* stopSSH: sshMutex.Lock()
StopLock(i) ==
    /\ pc[i] = "stop_lock"
    /\ sshMutex[i] = "free"
    /\ sshMutex' = [sshMutex EXCEPT ![i] = "stopSSH"]
    /\ calls' = [calls EXCEPT ![i] = Append(calls[i], "stopSSH")]
    /\ sigs' = [sigs EXCEPT ![i] = <<>>]
    /\ Goto(i, "stop_check")
    /\ UNCHANGED <<lockVars, sshProcess, child, spawned, attempt, startErr,
                   healthVars, sigVars, entered, exitCode>>

\* stopSSH: `if app.sshProcess == nil || !isProcessRunning { return }`
StopCheck(i) ==
    /\ pc[i] = "stop_check"
    /\ IF sshProcess[i] = Nil \/ ~IsProcessRunning(i, sshProcess[i])
       THEN Unlock(i) /\ Return(i)
       ELSE Goto(i, "stop_signal") /\ UNCHANGED sshMutex
    /\ UNCHANGED <<lockVars, sshProcess, child, spawned, attempt, startErr, sigs,
                   healthVars, sigVars, calls, entered, exitCode>>

\* StopSignal that does not wait for the signalled process
StopSignal_NoReap(i) ==
    /\ pc[i] = "stop_signal"
    /\ sigs' = [sigs EXCEPT ![i] = Append(sigs[i], "SIGTERM")]
    /\ LET h == sshProcess[i]
           st == child[i][h]
       IN child' = [child EXCEPT ![i][h] =
                       IF st = "running" THEN "terminating" ELSE st]
    /\ Goto(i, "stop_clear")
    /\ UNCHANGED <<lockVars, sshProcess, sshMutex, spawned, attempt, startErr,
                   healthVars, sigVars, calls, entered, exitCode>>

\* stopSSH: Process.Signal(SIGTERM). It is delivered to a process that has not
\* exited; for an exited, unreaped one it succeeds or fails with the platform.
StopSignal(i) ==
    /\ pc[i] = "stop_signal"
    /\ sigs' = [sigs EXCEPT ![i] = Append(sigs[i], "SIGTERM")]
    /\ LET h == sshProcess[i]
           st == child[i][h]
       IN \/ /\ st \in {"running", "stubborn", "terminating"}
             /\ child' = [child EXCEPT ![i][h] =
                             IF st = "running" THEN "terminating" ELSE st]
             /\ Goto(i, "stop_wait")
          \/ /\ st \in {"zombie", "reaped"}
             /\ \E delivered \in BOOLEAN :
                   Goto(i, IF delivered /\ st = "zombie" THEN "stop_wait"
                           ELSE "stop_kill")
             /\ UNCHANGED child
    /\ UNCHANGED <<lockVars, sshProcess, sshMutex, spawned, attempt, startErr,
                   healthVars, sigVars, calls, entered, exitCode>>

\* stopSSH: Process.Kill() after a failed SIGTERM
StopKill(i) ==
    /\ pc[i] = "stop_kill"
    /\ sigs' = [sigs EXCEPT ![i] = Append(sigs[i], "SIGKILL")]
    /\ LET h == sshProcess[i]
           st == child[i][h]
       IN child' = [child EXCEPT ![i][h] =
                       IF st \in {"running", "stubborn"} THEN "terminating" ELSE st]
    /\ Goto(i, "stop_wait")
    /\ UNCHANGED <<lockVars, sshProcess, sshMutex, spawned, attempt, startErr,
                   healthVars, sigVars, calls, entered, exitCode>>

\* StopWait without the call of Process.Wait()
StopWait_NoWait(i) ==
    /\ pc[i] = "stop_wait"
    /\ Goto(i, "stop_clear")
    /\ UNCHANGED <<lockVars, sshProcess, sshMutex, child, spawned, attempt,
                   startErr, sigs, healthVars, sigVars, calls, entered, exitCode>>

\* stopSSH: Process.Wait() blocks until the process has exited, then reaps it
StopWait(i) ==
    /\ pc[i] = "stop_wait"
    /\ LET h == sshProcess[i]
       IN /\ child[i][h] \in {"zombie", "reaped"}
          /\ child' = [child EXCEPT ![i][h] = "reaped"]
    /\ Goto(i, "stop_clear")
    /\ UNCHANGED <<lockVars, sshProcess, sshMutex, spawned, attempt, startErr,
                   sigs, healthVars, sigVars, calls, entered, exitCode>>

\* StopClear without `app.sshProcess = nil`
StopClear_KeepsHandle(i) ==
    /\ pc[i] = "stop_clear"
    /\ Unlock(i)
    /\ Return(i)
    /\ UNCHANGED <<lockVars, sshProcess, child, spawned, attempt, startErr, sigs,
                   healthVars, sigVars, calls, entered, exitCode>>

\* stopSSH: `app.sshProcess = nil`, the deferred Unlock, return
StopClear(i) ==
    /\ pc[i] = "stop_clear"
    /\ sshProcess' = [sshProcess EXCEPT ![i] = Nil]
    /\ Unlock(i)
    /\ Return(i)
    /\ UNCHANGED <<lockVars, child, spawned, attempt, startErr, sigs, healthVars,
                   sigVars, calls, entered, exitCode>>

-----------------------------------------------------------------------------
(* startSSH and waitForTunnelReady *)

\* startSSH: sshMutex.Lock()
StartLock(i) ==
    /\ pc[i] = "start_lock"
    /\ sshMutex[i] = "free"
    /\ sshMutex' = [sshMutex EXCEPT ![i] = "startSSH"]
    /\ calls' = [calls EXCEPT ![i] = Append(calls[i], "startSSH")]
    /\ startErr' = [startErr EXCEPT ![i] = Err("pending", 0)]
    /\ Goto(i, "start_check")
    /\ UNCHANGED <<lockVars, sshProcess, child, spawned, attempt, sigs,
                   healthVars, sigVars, entered, exitCode>>

\* StartCheck without the already-running test
StartCheck_NoTest(i) ==
    /\ pc[i] = "start_check"
    /\ Goto(i, "start_spawn")
    /\ UNCHANGED <<lockVars, procVars, healthVars, sigVars, calls, entered, exitCode>>

\* startSSH: `if app.sshProcess != nil && isProcessRunning { return nil }`
StartCheck(i) ==
    /\ pc[i] = "start_check"
    /\ IF sshProcess[i] # Nil /\ IsProcessRunning(i, sshProcess[i])
       THEN /\ calls' = [calls EXCEPT ![i] = Append(calls[i], "alreadyRunning")]
            /\ startErr' = [startErr EXCEPT ![i] = NoErr]
            /\ Unlock(i)
            /\ Return(i)
       ELSE /\ Goto(i, "start_spawn")
            /\ UNCHANGED <<startErr, sshMutex, calls>>
    /\ UNCHANGED <<lockVars, sshProcess, child, spawned, attempt, sigs,
                   healthVars, sigVars, entered, exitCode>>

\* StartSpawn with `app.sshProcess = cmd` moved before cmd.Start()
StartSpawn_AssignFirst(i) ==
    /\ pc[i] = "start_spawn"
    /\ \/ /\ startErr' = [startErr EXCEPT ![i] = Err("start", 0)]
          /\ sshProcess' = [sshProcess EXCEPT ![i] =
                               IF spawned[i] < MaxSpawns THEN spawned[i] + 1
                               ELSE sshProcess[i]]
          /\ Unlock(i)
          /\ Return(i)
          /\ UNCHANGED <<child, spawned, attempt>>
       \/ /\ spawned[i] < MaxSpawns
          /\ \E kind \in {"running", "stubborn"} :
                child' = [child EXCEPT ![i][spawned[i] + 1] = kind]
          /\ spawned' = [spawned EXCEPT ![i] = spawned[i] + 1]
          /\ sshProcess' = [sshProcess EXCEPT ![i] = spawned[i] + 1]
          /\ attempt' = [attempt EXCEPT ![i] = 0]
          /\ Goto(i, "wait_loop")
          /\ UNCHANGED <<startErr, sshMutex>>
    /\ UNCHANGED <<lockVars, sigs, healthVars, sigVars, calls, entered, exitCode>>

\* startSSH: exec.Command, cmd.Start(), `app.sshProcess = cmd`. The new ssh
\* either exits on SIGTERM ("running") or does not ("stubborn").
StartSpawn(i) ==
    /\ pc[i] = "start_spawn"
    /\ \/ /\ startErr' = [startErr EXCEPT ![i] = Err("start", 0)]
          /\ Unlock(i)
          /\ Return(i)
          /\ UNCHANGED <<sshProcess, child, spawned, attempt>>
       \/ /\ spawned[i] < MaxSpawns
          /\ \E kind \in {"running", "stubborn"} :
                child' = [child EXCEPT ![i][spawned[i] + 1] = kind]
          /\ spawned' = [spawned EXCEPT ![i] = spawned[i] + 1]
          /\ sshProcess' = [sshProcess EXCEPT ![i] = spawned[i] + 1]
          /\ attempt' = [attempt EXCEPT ![i] = 0]
          /\ Goto(i, "wait_loop")
          /\ UNCHANGED <<startErr, sshMutex>>
    /\ UNCHANGED <<lockVars, sigs, healthVars, sigVars, calls, entered, exitCode>>

\* WaitLoop that rolls the spawn back when the tunnel does not become ready
WaitLoop_RollBack(i) ==
    /\ pc[i] = "wait_loop"
    /\ IF attempt[i] < ReadyAttempts
       THEN /\ Call(i, "checkPort", "wait_afterPort")
            /\ UNCHANGED <<startErr, sshMutex, sshProcess, child>>
       ELSE /\ startErr' = [startErr EXCEPT ![i] = Err("notReady", 0)]
            /\ child' = [child EXCEPT ![i][sshProcess[i]] = "reaped"]
            /\ sshProcess' = [sshProcess EXCEPT ![i] = Nil]
            /\ Unlock(i)
            /\ Return(i)
    /\ UNCHANGED <<lockVars, spawned, attempt, sigs, healthVars, sigVars, calls,
                   entered, exitCode>>

\* WaitLoop with `i <= 5` for `i < 5`
WaitLoop_OffByOne(i) ==
    /\ pc[i] = "wait_loop"
    /\ IF attempt[i] <= ReadyAttempts
       THEN /\ Call(i, "checkPort", "wait_afterPort")
            /\ UNCHANGED <<startErr, sshMutex>>
       ELSE /\ startErr' = [startErr EXCEPT ![i] = Err("notReady", 0)]
            /\ Unlock(i)
            /\ Return(i)
    /\ UNCHANGED <<lockVars, sshProcess, child, spawned, attempt, sigs,
                   healthVars, sigVars, calls, entered, exitCode>>

\* waitForTunnelReady: `for i := 0; i < 5; i++ { if app.checkPort() ...`; when
\* the loop ends startSSH returns "tunnel failed to become ready"
WaitLoop(i) ==
    /\ pc[i] = "wait_loop"
    /\ IF attempt[i] < ReadyAttempts
       THEN /\ Call(i, "checkPort", "wait_afterPort")
            /\ UNCHANGED <<startErr, sshMutex>>
       ELSE /\ startErr' = [startErr EXCEPT ![i] = Err("notReady", 0)]
            /\ Unlock(i)
            /\ Return(i)
    /\ UNCHANGED <<lockVars, sshProcess, child, spawned, attempt, sigs,
                   healthVars, sigVars, calls, entered, exitCode>>

\* waitForTunnelReady: checkPort returned; ready, or sleep and i++
WaitAfterPort(i) ==
    /\ pc[i] = "wait_afterPort"
    /\ IF portOK[i]
       THEN /\ startErr' = [startErr EXCEPT ![i] = NoErr]
            /\ Unlock(i)
            /\ Return(i)
            /\ UNCHANGED attempt
       ELSE /\ attempt' = [attempt EXCEPT ![i] = attempt[i] + 1]
            /\ Goto(i, "wait_loop")
            /\ UNCHANGED <<startErr, sshMutex>>
    /\ UNCHANGED <<lockVars, sshProcess, child, spawned, sigs, healthVars,
                   sigVars, calls, entered, exitCode>>

-----------------------------------------------------------------------------
(* run, restartTunnel, cleanup *)

\* run: `case <-ticker.C`, calling checkTraffic
SelectTick(i) ==
    /\ pc[i] = "run_select"
    /\ calls' = [calls EXCEPT ![i] = <<"tick">>]
    /\ Call(i, "ct_enter", "run_afterCheck")
    /\ UNCHANGED <<lockVars, procVars, healthVars, sigVars, entered, exitCode>>

\* run: `case <-app.shutdownChan: return`; main returns into the deferred cleanup
SelectShutdown(i) ==
    /\ pc[i] = "run_select"
    /\ shutdownChan[i] = "closed"
    /\ calls' = [calls EXCEPT ![i] = Append(calls[i], "shutdown")]
    /\ Call(i, "cleanup", "main_exit")
    /\ UNCHANGED <<lockVars, procVars, healthVars, sigVars, entered, exitCode>>

\* RunAfterCheck with the negation of the test lost
RunAfterCheck_Inverted(i) ==
    /\ pc[i] = "run_afterCheck"
    /\ IF ~healthy[i]
       THEN /\ calls' = [calls EXCEPT ![i] = Append(calls[i], "unhealthy")]
            /\ Goto(i, "run_select")
       ELSE /\ calls' = [calls EXCEPT ![i] = Append(calls[i], "healthy")]
            /\ Call(i, "stop_lock", "rt_afterStop")
    /\ UNCHANGED <<lockVars, procVars, healthVars, sigVars, entered, exitCode>>

\* run: `if !app.checkTraffic() { app.restartTunnel() }`; restartTunnel calls stopSSH
RunAfterCheck(i) ==
    /\ pc[i] = "run_afterCheck"
    /\ IF healthy[i]
       THEN /\ calls' = [calls EXCEPT ![i] = Append(calls[i], "healthy")]
            /\ Goto(i, "run_select")
       ELSE /\ calls' = [calls EXCEPT ![i] = Append(calls[i], "unhealthy")]
            /\ Call(i, "stop_lock", "rt_afterStop")
    /\ UNCHANGED <<lockVars, procVars, healthVars, sigVars, entered, exitCode>>

\* restartTunnel: stopSSH returned, call startSSH
RtAfterStop(i) ==
    /\ pc[i] = "rt_afterStop"
    /\ Call(i, "start_lock", "rt_afterStart")
    /\ UNCHANGED <<lockVars, procVars, healthVars, sigVars, calls, entered, exitCode>>

\* restartTunnel: startSSH returned, its error is logged; back to the select
RtAfterStart(i) ==
    /\ pc[i] = "rt_afterStart"
    /\ Goto(i, "run_select")
    /\ UNCHANGED <<lockVars, procVars, healthVars, sigVars, calls, entered, exitCode>>

\* cleanup: calls stopSSH
CleanupEnter(i) ==
    /\ pc[i] = "cleanup"
    /\ Call(i, "stop_lock", "cleanup_remove")
    /\ UNCHANGED <<lockVars, procVars, healthVars, sigVars, calls, entered, exitCode>>

\* cleanup: os.Remove(PIDFile); a missing file is no error
CleanupRemove(i) ==
    /\ pc[i] = "cleanup_remove"
    /\ pidFile' = NoFile
    /\ Return(i)
    /\ UNCHANGED <<pidContent, pidErr, procVars, healthVars, sigVars, calls,
                   entered, exitCode>>

\* main returns after the deferred cleanup
MainExit(i) ==
    /\ pc[i] = "main_exit"
    /\ Exit(i, 0)
    /\ UNCHANGED <<lockVars, procVars, healthVars, sigVars, calls, entered>>

-----------------------------------------------------------------------------
(* Signals, the handler goroutine, and the environment *)

\* SIGINT or SIGTERM sent to instance i. Before signal.Notify the default
\* disposition terminates the process; afterwards the signal is buffered in
\* sigCh, or dropped when the buffer is full.
SendSignal(i) ==
    /\ Running(i)
    /\ IF handler[i] = "none"
       THEN /\ pc' = [pc EXCEPT ![i] = "crashed"]
            /\ ret' = [ret EXCEPT ![i] = <<>>]
            /\ UNCHANGED sigCh
       ELSE /\ sigCh[i] = 0
            /\ sigCh' = [sigCh EXCEPT ![i] = 1]
            /\ UNCHANGED <<pc, ret>>
    /\ UNCHANGED <<lockVars, procVars, healthVars, handler, shutdownChan, calls,
                   entered, exitCode>>

\* HandlerRecv that runs the shutdown itself, wherever the loop is
HandlerRecv_Abort(i) ==
    /\ Running(i)
    /\ handler[i] = "waiting"
    /\ sigCh[i] > 0
    /\ sigCh' = [sigCh EXCEPT ![i] = sigCh[i] - 1]
    /\ handler' = [handler EXCEPT ![i] = "done"]
    /\ shutdownChan' = [shutdownChan EXCEPT ![i] = "closed"]
    /\ pc' = [pc EXCEPT ![i] = "cleanup"]
    /\ ret' = [ret EXCEPT ![i] = <<"main_exit">>]
    /\ UNCHANGED <<lockVars, procVars, healthVars, calls, entered, exitCode>>

\* HandlerRecv as a loop `for range sigCh { close(app.shutdownChan) }`
HandlerRecv_Loop(i) ==
    /\ Running(i)
    /\ handler[i] \in {"waiting", "done"}
    /\ sigCh[i] > 0
    /\ sigCh' = [sigCh EXCEPT ![i] = sigCh[i] - 1]
    /\ handler' = [handler EXCEPT ![i] = "done"]
    /\ shutdownChan' = [shutdownChan EXCEPT ![i] = "closed"]
    /\ UNCHANGED <<pc, ret, lockVars, procVars, healthVars, calls, entered, exitCode>>

\* setupSignalHandler's goroutine: `sig := <-sigCh; close(app.shutdownChan)`
HandlerRecv(i) ==
    /\ Running(i)
    /\ handler[i] = "waiting"
    /\ sigCh[i] > 0
    /\ sigCh' = [sigCh EXCEPT ![i] = sigCh[i] - 1]
    /\ handler' = [handler EXCEPT ![i] = "done"]
    /\ shutdownChan' = [shutdownChan EXCEPT ![i] = "closed"]
    /\ UNCHANGED <<pc, ret, lockVars, procVars, healthVars, calls, entered, exitCode>>

\* instance i is killed (SIGKILL, power loss): no cleanup runs
Crash(i) ==
    /\ Running(i)
    /\ pc' = [pc EXCEPT ![i] = "crashed"]
    /\ ret' = [ret EXCEPT ![i] = <<>>]
    /\ UNCHANGED <<lockVars, procVars, healthVars, sigVars, calls, entered, exitCode>>

\* an ssh child exits by itself (connection lost, killed from outside)
ChildExit(i) ==
    /\ \E n \in 1..MaxSpawns :
          /\ child[i][n] \in {"running", "stubborn"}
          /\ child' = [child EXCEPT ![i][n] = "zombie"]
    /\ UNCHANGED <<pc, ret, lockVars, sshProcess, sshMutex, spawned, attempt,
                   startErr, sigs, healthVars, sigVars, calls, entered, exitCode>>

\* an ssh child that got SIGTERM and honours it, or got SIGKILL, exits
ChildDie(i) ==
    /\ \E n \in 1..MaxSpawns :
          /\ child[i][n] = "terminating"
          /\ child' = [child EXCEPT ![i][n] = "zombie"]
    /\ UNCHANGED <<pc, ret, lockVars, sshProcess, sshMutex, spawned, attempt,
                   startErr, sigs, healthVars, sigVars, calls, entered, exitCode>>

\* a caller of the Application methods (a test) invokes one when idle
ApiCall(i) ==
    /\ pc[i] = "idle"
    /\ \E f \in {"pid_stat", "start_lock", "stop_lock", "ct_enter", "cleanup"} :
          Call(i, f, "idle")
    /\ calls' = [calls EXCEPT ![i] = <<>>]
    /\ UNCHANGED <<lockVars, procVars, healthVars, sigVars, entered, exitCode>>

-----------------------------------------------------------------------------
(* Specifications *)

InitCommon ==
    /\ pidFile \in InitialLockContents
    /\ ret = [i \in Inst |-> <<>>]
    /\ pidContent = [i \in Inst |-> <<>>]
    /\ pidErr = [i \in Inst |-> Err("none", 0)]
    /\ sshProcess = [i \in Inst |-> Nil]
    /\ sshMutex = [i \in Inst |-> "free"]
    /\ child = [i \in Inst |-> [n \in 1..MaxSpawns |-> "none"]]
    /\ spawned = [i \in Inst |-> 0]
    /\ attempt = [i \in Inst |-> 0]
    /\ portOK = [i \in Inst |-> FALSE]
    /\ ctPort = [i \in Inst |-> FALSE]
    /\ ctResp = [i \in Inst |-> NoResp]
    /\ healthy = [i \in Inst |-> FALSE]
    /\ startErr = [i \in Inst |-> Err("none", 0)]
    /\ sigCh = [i \in Inst |-> 0]
    /\ handler = [i \in Inst |-> "none"]
    /\ shutdownChan = [i \in Inst |-> "open"]
    /\ calls = [i \in Inst |-> <<>>]
    /\ probes = [i \in Inst |-> <<>>]
    /\ sigs = [i \in Inst |-> <<>>]
    /\ entered = [i \in Inst |-> FALSE]
    /\ exitCode = [i \in Inst |-> -1]

\* one supervisor is launched: instance 1
Init == InitCommon /\ pc = [i \in Inst |-> IF i = 1 THEN "main" ELSE "off"]

\* every instance is launched at about the same time
InitRace == InitCommon /\ pc = [i \in Inst |-> "main"]

\* instance 1 is an Application value whose methods a caller invokes
InitApi == InitCommon /\ pc = [i \in Inst |-> IF i = 1 THEN "idle" ELSE "off"]

\* the methods of Application
Method(i) ==
    \/ PidStat(i) \/ PidRead(i) \/ PidProbe(i) \/ PidRemove(i) \/ PidWrite(i)
    \/ CheckPort(i) \/ CheckTrafficEnter(i) \/ CtAfterPort(i) \/ CtHead(i)
    \/ StopLock(i) \/ StopCheck(i) \/ StopSignal(i) \/ StopKill(i)
    \/ StopWait(i) \/ StopClear(i)
    \/ StartLock(i) \/ StartCheck(i) \/ StartSpawn(i) \/ WaitLoop(i)
    \/ WaitAfterPort(i)
    \/ CleanupEnter(i) \/ CleanupRemove(i)

\* main, initialize, run and restartTunnel
Main(i) ==
    \/ Startup(i) \/ InitAfterPID(i)
    \/ SelectTick(i) \/ SelectShutdown(i) \/ RunAfterCheck(i)
    \/ RtAfterStop(i) \/ RtAfterStart(i) \/ MainExit(i)

Program(i) == Main(i) \/ Method(i) \/ HandlerRecv(i)

\* The program of one supervisor with its environment: signals, crashes and
\* ssh children that exit.
Next == \E i \in Inst :
           Program(i) \/ SendSignal(i) \/ Crash(i) \/ ChildExit(i) \/ ChildDie(i)

Spec == Init /\ [][Next]_vars

NextLive == \E i \in Inst :
               Program(i) \/ SendSignal(i) \/ ChildExit(i) \/ ChildDie(i)

\* The Go scheduler runs every runnable goroutine, network calls end by their
\* timeouts, a signalled child that honours the signal exits, and a select
\* with several ready cases picks each of them with equal probability.
Fairness ==
    /\ \A i \in Inst : WF_vars(Main(i) \/ Method(i))
    /\ \A i \in Inst : WF_vars(HandlerRecv(i))
    /\ \A i \in Inst : WF_vars(ChildDie(i))
    /\ \A i \in Inst : SF_vars(SelectShutdown(i))

SpecLive == Init /\ [][NextLive]_vars /\ Fairness

\* Several supervisors launched together for the same endpoint, observed until
\* the first tick of their tickers (MainLoopSleep after the start): startup,
\* createPIDFile, signals, shutdown and cleanup, in any interleaving.
NextRace == \E i \in Inst :
    \/ Startup(i) \/ InitAfterPID(i)
    \/ PidStat(i) \/ PidRead(i) \/ PidProbe(i) \/ PidRemove(i) \/ PidWrite(i)
    \/ SelectShutdown(i) \/ CleanupEnter(i) \/ StopLock(i) \/ StopCheck(i)
    \/ CleanupRemove(i) \/ MainExit(i)
    \/ HandlerRecv(i) \/ SendSignal(i) \/ Crash(i)

SpecRace == InitRace /\ [][NextRace]_vars

NextApi == \E i \in Inst : ApiCall(i) \/ Method(i) \/ ChildExit(i) \/ ChildDie(i)

SpecApi == InitApi /\ [][NextApi]_vars

-----------------------------------------------------------------------------
(* Properties of createPIDFile *)

\* the identifier createPIDFile parsed from the lock file it read
ReadPid(i) == Atoi(TrimSpace(pidContent[i]))

\* createPIDFile of instance i has evaluated the content it read
Probed(i) == pidErr[i].kind # "none" \/ pc[i] \in {"pid_remove", "pid_write"}

\* C1: when the lock file holds the identifier of a live process,
\* createPIDFile fails with the already-running error naming that identifier,
\* the lock file still holds what was read, and the instance exits with
\* status 1 without entering run() and without spawning ssh.
C1_LiveOwnerRejects ==
    \A i \in Inst :
       (Probed(i) /\ ReadPid(i).ok /\ ProcessAlive(ReadPid(i).val))
          => /\ pidErr[i] = Err("alreadyRunning", ReadPid(i).val)
             /\ pidFile = pidContent[i]
             /\ ~entered[i]
             /\ spawned[i] = 0
             /\ pc[i] \in {"init_afterPID", "exited", "crashed"}
             /\ (pc[i] = "exited" => exitCode[i] = 1)

C1_Witness ==
    \E i \in Inst :
       /\ pidErr[i].kind = "alreadyRunning"
       /\ pidErr[i].pid = 1
       /\ pc[i] = "exited"

\* C2: when createPIDFile finds a well-formed identifier of a process that is
\* not alive, it goes on to remove the file and write it, returns nil, and
\* the file then holds exactly the decimal identifier of the caller.
C2_StaleLockReclaimed ==
    [][\A i \in Inst :
          /\ (/\ pc[i] = "pid_probe"
              /\ pc'[i] \notin {"pid_probe", "crashed"}
              /\ ReadPid(i).ok
              /\ ~ProcessAlive(ReadPid(i).val)) => pc'[i] = "pid_remove"
          /\ (pc[i] = "pid_remove" /\ pc'[i] \notin {"pid_remove", "crashed"})
                => pc'[i] = "pid_write"
          /\ (pc[i] = "pid_write" /\ pc'[i] \notin {"pid_write", "crashed"})
                => /\ pidErr'[i] = NoErr
                   /\ pc'[i] = "init_afterPID"
                   /\ pidFile' # NoFile
                   /\ TrimSpace(pidFile') = pidFile'
                   /\ Atoi(pidFile') = [ok |-> TRUE, val |-> PidOf(i)]]_vars

C2_Witness ==
    \E i \in Inst :
       /\ pc[i] = "init_afterPID"
       /\ pidErr[i] = NoErr
       /\ ReadPid(i).ok
       /\ ~ProcessAlive(ReadPid(i).val)
       /\ pidFile = <<"1", "0", "2">>

\* C3: when createPIDFile finds a lock file whose content is no process
\* identifier, it returns nil and the file holds the caller's identifier.
C3_UnparsableLockIsStale ==
    \A i \in Inst :
       (pc[i] = "init_afterPID" /\ ~ReadPid(i).ok)
          => pidErr[i] = NoErr /\ pidFile = Itoa(PidOf(i))

\* C4: two live instances never both hold the lock: no state has two
\* running instances whose createPIDFile both returned nil.
C4_AtMostOneHolder ==
    \A i, j \in Inst :
       (i # j /\ Running(i) /\ Running(j))
          => ~(pidErr[i] = NoErr /\ pidErr[j] = NoErr)

-----------------------------------------------------------------------------
(* Properties of the supervisory loop, startSSH and stopSSH *)

IsPrefix(s, t) == Len(s) <= Len(t) /\ SubSeq(t, 1, Len(s)) = s

\* what one cycle of run logs: a healthy check and nothing more, or an
\* unhealthy check, then stopSSH, then startSSH (which may find the process
\* already running)
HealthyCycle == <<"tick", "healthy">>
RestartCycle == <<"tick", "unhealthy", "stopSSH", "startSSH">>
CycleLogs == {<<>>, HealthyCycle, RestartCycle,
              RestartCycle \o <<"alreadyRunning">>}

\* C5: a healthy cycle calls neither stopSSH nor startSSH; an unhealthy
\* cycle calls stopSSH once and then startSSH once; startSSH is called
\* nowhere else, and stopSSH only once more, by cleanup after shutdown.
C5_RestartExactlyOnUnhealthy ==
    \A i \in Inst :
       /\ \E c \in CycleLogs :
             IsPrefix(calls[i], c \o <<"shutdown", "stopSSH">>)
       /\ pc[i] = "run_select" => calls[i] \in CycleLogs
       /\ (Len(calls[i]) >= 2 /\ calls[i][1] = "tick")
             => (calls[i][2] = "healthy") = healthy[i]

C5_Witness ==
    \E i \in Inst :
       /\ pc[i] = "run_select"
       /\ calls[i] = RestartCycle
       /\ spawned[i] = 2

\* a process that has not exited
Live(i, h) == h # Nil /\ child[i][h] \in {"running", "stubborn", "terminating"}

\* C6: startSSH called while the supervisor holds the handle of a live
\* process returns nil, spawns nothing and leaves the handle as it was.
C6_StartIsNoopWhenLive ==
    [][\A i \in Inst :
          (/\ pc[i] \in {"start_lock", "start_check"}
           /\ pc'[i] # pc[i]
           /\ Live(i, sshProcess[i]))
             => /\ sshProcess'[i] = sshProcess[i]
                /\ spawned'[i] = spawned[i]
                /\ child'[i] = child[i]
                /\ pc[i] = "start_check"
                      => /\ pc'[i] = Head(ret[i])
                         /\ startErr'[i] = NoErr
                         /\ sshMutex'[i] = "free"]_vars

C6_Witness ==
    \E i \in Inst :
       /\ pc[i] = "idle"
       /\ calls[i] = <<"startSSH", "alreadyRunning">>
       /\ startErr[i] = NoErr
       /\ Live(i, sshProcess[i])

\* C7: stopSSH on a supervisor without a process returns without sending a
\* signal, without spawning and without changing the process state or the
\* lock file; and stopSSH always returns with the reference absent, so a
\* second stopSSH in a row is that no-op.
C7_StopIdempotent ==
    /\ [][\A i \in Inst :
            (/\ pc[i] \in {"stop_lock", "stop_check"}
             /\ pc'[i] # pc[i]
             /\ sshProcess[i] = Nil)
               => /\ sshProcess'[i] = Nil
                  /\ spawned'[i] = spawned[i]
                  /\ child'[i] = child[i]
                  /\ sigs'[i] = <<>>
                  /\ pidFile' = pidFile
                  /\ pc[i] = "stop_check"
                        => pc'[i] = Head(ret[i]) /\ sshMutex'[i] = "free"]_vars
    /\ [](\A i \in Inst :
            (pc[i] = "idle" /\ calls[i] = <<"stopSSH">>)
               => sshProcess[i] = Nil /\ sshMutex[i] = "free")

C7_Witness ==
    \E i \in Inst :
       /\ pc[i] = "idle"
       /\ calls[i] = <<"stopSSH">>
       /\ sigs[i] = <<>>
       /\ \E n \in 1..MaxSpawns : child[i][n] = "reaped"

-----------------------------------------------------------------------------
(* Properties of checkTraffic *)

\* C8: when the port stage of a health check fails, the check returns
\* unhealthy and issues no HEAD request.
C8_PortFailureSkipsProbe ==
    \A i \in Inst :
       /\ ~ctPort[i] => probes[i] = <<>> /\ pc[i] # "ct_head"
       /\ (pc[i] = "run_afterCheck" /\ ~ctPort[i]) => ~healthy[i]

C8_Witness ==
    \E i \in Inst :
       /\ pc[i] = "run_afterCheck"
       /\ ~ctPort[i]
       /\ probes[i] = <<>>
       /\ ~healthy[i]

\* C9: checkTraffic returns healthy exactly when the port stage succeeded
\* and the HEAD request returned a response with status 200.
C9_HealthyIffPortAnd200 ==
    \A i \in Inst :
       pc[i] = "run_afterCheck"
          => (healthy[i] <=> (/\ ctPort[i]
                              /\ probes[i] = <<"HEAD">>
                              /\ ~ctResp[i].err
                              /\ ctResp[i].status = 200))

C9_Witness ==
    \E i \in Inst :
       /\ pc[i] = "run_afterCheck"
       /\ healthy[i]
       /\ ctResp[i] = [err |-> FALSE, status |-> 200]

-----------------------------------------------------------------------------
(* Shutdown *)

\* a termination signal has reached instance i and its loop is in the select
SignalledInWait(i) ==
    /\ pc[i] = "run_select"
    /\ sigCh[i] > 0 \/ shutdownChan[i] = "closed"

\* instance i has left the loop and finished cleanup: no ssh process of its
\* own is left, the reference is absent and the lock file is gone
CleanFinal(i) ==
    /\ pc[i] \in {"main_exit", "exited"}
    /\ sshProcess[i] = Nil
    /\ \A n \in 1..MaxSpawns : child[i][n] \in {"none", "reaped"}
    /\ pidFile = NoFile

\* C10: a termination signal delivered during the timer wait leads to the
\* supervisor leaving the loop and finishing cleanup with the process
\* stopped, the reference absent and the lock file removed.
C10_ShutdownCompletes ==
    \A i \in Inst : SignalledInWait(i) ~> CleanFinal(i)


\* C11: once shutdownChan is closed while the loop waits in its select, the
\* loop does not take the ticker branch again: no health check is started.
C11_NoCheckAfterShutdown ==
    [][\A i \in Inst :
          (pc[i] = "run_select" /\ shutdownChan[i] = "closed")
             => pc'[i] # "ct_enter"]_vars

\* the positions inside stopSSH
StopLabels ==
    {"stop_lock", "stop_check", "stop_signal", "stop_kill", "stop_wait",
     "stop_clear"}

\* C12: stopSSH on a running process always returns: from the moment it
\* sends the termination request it leads to a state outside stopSSH.
C12_StopReturns ==
    \A i \in Inst : (pc[i] = "stop_signal") ~> (pc[i] \notin StopLabels)


-----------------------------------------------------------------------------
(* Properties of the readiness poll of startSSH *)

\* the positions inside startSSH after its Lock
StartLabels ==
    {"start_check", "start_spawn", "wait_loop", "checkPort", "wait_afterPort"}

\* C13: after spawning, startSSH makes at most 5 checkPort attempts and no
\* HEAD request; it returns nil at once when an attempt finds the port
\* reachable, and returns nil only if the last attempt made found it so;
\* after 5 failed attempts it returns the not-ready error.
C13_BoundedReadinessPoll ==
    /\ [](\A i \in Inst :
            /\ (sshMutex[i] = "startSSH" /\ Running(i))
                  => pc[i] \in StartLabels /\ attempt[i] <= 5
            /\ (sshMutex[i] = "startSSH" /\ pc[i] = "checkPort")
                  => attempt[i] < 5
            /\ (pc[i] = "rt_afterStart" /\ startErr[i] = NoErr)
                  => portOK[i] /\ attempt[i] < 5
            /\ (pc[i] = "rt_afterStart" /\ startErr[i].kind = "notReady")
                  => ~portOK[i] /\ attempt[i] = 5)
    /\ [][\A i \in Inst :
            /\ sshMutex[i] = "startSSH" => probes'[i] = probes[i]
            /\ (/\ pc[i] = "wait_afterPort"
                /\ portOK[i]
                /\ pc'[i] \notin {"wait_afterPort", "crashed"})
                  => /\ pc'[i] = Head(ret[i])
                     /\ startErr'[i] = NoErr
                     /\ attempt'[i] = attempt[i]]_vars

C13_Witness ==
    \E i \in Inst :
       /\ pc[i] = "rt_afterStart"
       /\ startErr[i] = NoErr
       /\ attempt[i] = 1


\* the last entry of instance i's call log is not a stopSSH call
NotYetStopped(i) ==
    calls[i] = <<>> \/ calls[i][Len(calls[i])] # "stopSSH"

\* C14: when all readiness attempts fail, startSSH returns the not-ready
\* error, the spawned process is not signalled, and sshProcess still refers to
\* it; the next stopSSH signals that same process, and no new process is
\* spawned before every earlier one has been stopped and reaped.
C14_NotReadyKeepsProcess ==
    /\ [](\A i \in Inst :
            (startErr[i].kind = "notReady" /\ NotYetStopped(i))
               => /\ sshProcess[i] # Nil
                  /\ sshProcess[i] = spawned[i]
                  /\ child[i][sshProcess[i]] \in {"running", "stubborn", "zombie"})
    /\ [][\A i \in Inst :
            /\ (/\ startErr[i].kind = "notReady"
                /\ pc[i] = "stop_check"
                /\ pc'[i] \notin {"stop_check", "crashed"})
                  => pc'[i] = "stop_signal" /\ sshProcess'[i] = spawned[i]
            /\ spawned'[i] # spawned[i]
                  => \A n \in 1..spawned[i] : child[i][n] = "reaped"]_vars

C14_Witness ==
    \E i \in Inst :
       /\ pc[i] = "stop_signal"
       /\ startErr[i].kind = "notReady"
       /\ calls[i] = <<"tick", "unhealthy", "stopSSH">>
       /\ child[i][sshProcess[i]] = "running"


-----------------------------------------------------------------------------
(* Properties of startup and of the monitoring loop *)

\* C15: the first health check runs only after startSSH has been called: the
\* supervisor starts ssh before the ticker and the first checkTraffic.
C15_StartBeforeFirstCheck ==
    \A i \in Inst : pc[i] = "ct_enter" => startErr[i].kind # "none"


\* the entries of instance i's call log from the shutdown case onwards
RECURSIVE FromShutdown(_)
FromShutdown(s) ==
    IF s = <<>> THEN <<>>
    ELSE IF Head(s) = "shutdown" THEN s
    ELSE FromShutdown(Tail(s))

\* C16: a termination signal that arrives after the first one was consumed
\* changes nothing but the signal buffer: the handler consumes a signal only
\* while shutdownChan is open, so the channel is closed once, and the loop
\* enters cleanup once, which calls stopSSH once.
C16_SecondSignalNoEffect ==
    /\ [](\A i \in Inst :
            IsPrefix(FromShutdown(calls[i]), <<"shutdown", "stopSSH">>))
    /\ [][\A i \in Inst :
            /\ sigCh'[i] < sigCh[i] => shutdownChan[i] = "open"
            /\ shutdownChan[i] = "closed" => shutdownChan'[i] = "closed"
            /\ (handler[i] = "done" /\ sigCh'[i] > sigCh[i])
                  => UNCHANGED <<pc, ret, lockVars, procVars, healthVars,
                                 handler, shutdownChan, calls, entered, exitCode>>
            /\ (pc'[i] = "cleanup" /\ pc[i] # "cleanup")
                  => pc[i] = "run_select" /\ FromShutdown(calls[i]) = <<>>]_vars

C16_Witness ==
    \E i \in Inst :
       /\ handler[i] = "done"
       /\ sigCh[i] = 1
       /\ pc[i] = "exited"
       /\ exitCode[i] = 0
       /\ pidFile = NoFile


\* C17: an unhealthy check never ends the loop: from the point where the check
\* has returned unhealthy, the restart finishes and the loop is back in its
\* select, where the next tick runs another health check.
C17_LoopSurvivesFailures ==
    \A i \in Inst :
       (pc[i] = "run_afterCheck" /\ ~healthy[i]) ~> (pc[i] = "run_select")


\* the positions of instance i's call stack, innermost first
Frames(i) == <<pc[i]>> \o ret[i]

\* the frames of Frames(i) that lie in the set of labels L
FramesIn(i, L) == {k \in 1..Len(Frames(i)) : Frames(i)[k] \in L}

CycleLabels == {"run_afterCheck", "rt_afterStop", "rt_afterStart"}

CleanupLabels == {"cleanup", "cleanup_remove", "main_exit"}

\* instance i is inside the ticker case of run: checkTraffic or restartTunnel
InCycle(i) == FramesIn(i, CycleLabels) # {}

\* instance i has left run through the shutdown case and is in cleanup
InCleanup(i) == FramesIn(i, CleanupLabels) # {}

\* C18: a cycle begins only at the select and ends only back at the select;
\* at most one cycle is in progress; closing shutdownChan during a cycle
\* leaves the cycle's position unchanged; cleanup begins only at the select,
\* so it is never in progress together with a cycle.
C18_CyclesNeverOverlap ==
    /\ [](\A i \in Inst :
            /\ Cardinality(FramesIn(i, CycleLabels)) <= 1
            /\ ~(InCycle(i) /\ InCleanup(i)))
    /\ [][\A i \in Inst :
            /\ (~InCycle(i) /\ InCycle(i)') => pc[i] = "run_select"
            /\ (InCycle(i) /\ ~InCycle(i)')
                  => pc'[i] \in {"run_select", "crashed"}
            /\ (InCycle(i) /\ shutdownChan'[i] # shutdownChan[i])
                  => pc'[i] = pc[i] /\ ret'[i] = ret[i]
            /\ (~InCleanup(i) /\ InCleanup(i)')
                  => pc[i] = "run_select" /\ shutdownChan[i] = "closed"]_vars

C18_Witness ==
    \E i \in Inst :
       /\ pc[i] = "rt_afterStart"
       /\ shutdownChan[i] = "closed"
       /\ calls[i] = RestartCycle


-----------------------------------------------------------------------------
(* Properties of stopSSH and of sshMutex *)

\* C19: when stopSSH has returned to restartTunnel or to cleanup, sshProcess
\* is nil, the mutex is released and every process spawned so far has been
\* reaped, whether SIGTERM was delivered or Kill was used; stopSSH clears the
\* reference only of a process that Wait has reaped.
C19_StopReapsAndClears ==
    /\ [](\A i \in Inst :
            pc[i] \in {"rt_afterStop", "cleanup_remove"}
               => /\ sshProcess[i] = Nil
                  /\ sshMutex[i] = "free"
                  /\ \A n \in 1..spawned[i] : child[i][n] = "reaped")
    /\ [][\A i \in Inst :
            (sshProcess[i] # Nil /\ sshProcess'[i] = Nil)
               => pc[i] = "stop_clear" /\ child[i][sshProcess[i]] = "reaped"]_vars

C19_Witness ==
    \E i \in Inst :
       /\ pc[i] = "rt_afterStop"
       /\ sigs[i] = <<"SIGTERM", "SIGKILL">>
       /\ spawned[i] = 1
       /\ child[i][1] = "reaped"


\* C20: sshMutex is never held while a network probe is in progress: whenever
\* an instance is in checkPort's dial or in the HEAD request, its mutex is free.
C20_NoProbeUnderMutex ==
    \A i \in Inst :
       (Running(i) /\ pc[i] \in {"checkPort", "ct_head"}) => sshMutex[i] = "free"


\* the positions of startSSH between its Lock and its deferred Unlock
StartSection == {"start_check", "start_spawn", "wait_loop", "wait_afterPort"}

\* the positions of stopSSH between its Lock and its deferred Unlock
StopSection ==
    {"stop_check", "stop_signal", "stop_kill", "stop_wait", "stop_clear"}

\* C21: sshProcess is read and written only with sshMutex held: an instance
\* is inside startSSH's section exactly with the mutex taken by startSSH,
\* inside stopSSH's section exactly with the mutex taken by stopSSH, so the
\* two sections never overlap (the restart's with cleanup's least of all);
\* sshProcess changes only under the mutex, and the mutex is taken only when
\* it is free.
C21_ReferenceUnderMutex ==
    /\ [](\A i \in Inst :
            Running(i)
               => /\ FramesIn(i, StartSection) # {} <=> sshMutex[i] = "startSSH"
                  /\ FramesIn(i, StopSection) # {} <=> sshMutex[i] = "stopSSH"
                  /\ (InCleanup(i) /\ sshMutex[i] # "free")
                        => sshMutex[i] = "stopSSH" /\ ~InCycle(i))
    /\ [][\A i \in Inst :
            /\ sshProcess'[i] # sshProcess[i] => sshMutex[i] # "free"
            /\ (sshMutex'[i] # sshMutex[i] /\ sshMutex[i] # "free")
                  => sshMutex'[i] = "free"]_vars

C21_Witness ==
    \E i \in Inst :
       /\ pc[i] = "stop_wait"
       /\ InCleanup(i)
       /\ sshMutex[i] = "stopSSH"
       /\ calls[i] = RestartCycle \o <<"shutdown", "stopSSH">>


\* a spawned process that the supervisor has not reaped
Unreaped == {"running", "stubborn", "terminating", "zombie"}

C23_StartTestsRealLiveness ==
    [][\A i \in Inst :
          (/\ pc[i] = "start_check"
           /\ sshProcess[i] # Nil
           /\ child[i][sshProcess[i]] = "zombie"
           /\ pc'[i] # pc[i])
             => pc'[i] = "start_spawn"]_vars


\* the processes instance i has spawned and not reaped
UnreapedOf(i) == {n \in 1..MaxSpawns : child[i][n] \in Unreaped}

\* C24: an instance has at most one spawned and unreaped child, and that one
\* is the process sshProcess refers to; a new spawn happens only with every
\* earlier child reaped; an instance that has exited has left none unreaped.
C24_AtMostOneUnreapedChild ==
    /\ [](\A i \in Inst :
            /\ Cardinality(UnreapedOf(i)) <= 1
            /\ Running(i) => UnreapedOf(i) \subseteq {sshProcess[i]}
            /\ pc[i] = "exited" => UnreapedOf(i) = {})
    /\ [][\A i \in Inst :
            spawned'[i] # spawned[i]
               => UnreapedOf(i) = {} /\ sshProcess[i] = Nil]_vars

C24_Witness ==
    \E i \in Inst :
       /\ spawned[i] = 2
       /\ child[i][1] = "reaped"
       /\ child[i][2] \in Unreaped
       /\ sshProcess[i] = 2

====
